---------------------------- MODULE Spec2Model ----------------------------
(***************************************************************************)
(* A model of the LightDiffusion extension (src/lightdiffusion.py): the    *)
(* request builder and response normalizer of generate_image, the cache    *)
(* files it writes and restore_gtk_widget reads, the prompt extraction of  *)
(* _extract_prompt_from_block, and the loading state of                    *)
(* ImageGeneratorWidget.                                                   *)
(*                                                                         *)
(* Python values are tagged records.  A Python str is a sequence of        *)
(* symbols: a symbol is one character, or a run of characters none of      *)
(* which any modelled operation inspects (e.g. "localhost:7861").  A float *)
(* is kept in hundredths (fixed point), which is exact for every float     *)
(* the settings schema and the sampled inputs produce.                     *)
(***************************************************************************)
EXTENDS Integers, Sequences, FiniteSets, TLC

VARIABLES settings, widgets, gens, loaders, urlLoads, idleq, files

vars == <<settings, widgets, gens, loaders, urlLoads, idleq, files>>

---------------------------------------------------------------------------
(* Python values *)

NoneV == [t |-> "none"]
BoolV(b) == [t |-> "bool", b |-> b]
IntV(n) == [t |-> "int", n |-> n]
FloatV(c) == [t |-> "float", c |-> c]
StrV(s) == [t |-> "str", s |-> s]
ListV(xs) == [t |-> "list", xs |-> xs]
DictV(d) == [t |-> "dict", d |-> d]

EmptyDict == <<>>

\* bool(v): the truth value `or` and `if` test
Truthy(v) ==
    CASE v.t = "none" -> FALSE
      [] v.t = "bool" -> v.b
      [] v.t = "int" -> v.n # 0
      [] v.t = "float" -> v.c # 0
      [] v.t = "str" -> Len(v.s) > 0
      [] v.t = "list" -> Len(v.xs) > 0
      [] v.t = "dict" -> DOMAIN v.d # {}

\* a or b
PyOr(a, b) == IF Truthy(a) THEN a ELSE b

DigitChars == <<"0", "1", "2", "3", "4", "5", "6", "7", "8", "9">>

IsDigit(c) == \E i \in 1..10 : DigitChars[i] = c

DigitVal(c) == (CHOOSE i \in 1..10 : DigitChars[i] = c) - 1

IsSpace(c) == c \in {" ", "\t", "\n"}

RECURSIVE LStrip(_)
LStrip(s) == IF Len(s) > 0 /\ IsSpace(Head(s)) THEN LStrip(Tail(s)) ELSE s

RECURSIVE RStrip(_)
RStrip(s) ==
    IF Len(s) > 0 /\ IsSpace(s[Len(s)]) THEN RStrip(SubSeq(s, 1, Len(s) - 1)) ELSE s

\* str.strip()
Strip(s) == RStrip(LStrip(s))

\* str.rstrip(chars) for a one-character set
RECURSIVE RStripChar(_, _)
RStripChar(s, c) ==
    IF Len(s) > 0 /\ s[Len(s)] = c THEN RStripChar(SubSeq(s, 1, Len(s) - 1), c) ELSE s

UpperChars == <<"A", "B", "C", "D", "E", "F", "G", "H", "I", "J", "K", "L", "M",
                "N", "O", "P", "Q", "R", "S", "T", "U", "V", "W", "X", "Y", "Z">>

LowerChars == <<"a", "b", "c", "d", "e", "f", "g", "h", "i", "j", "k", "l", "m",
                "n", "o", "p", "q", "r", "s", "t", "u", "v", "w", "x", "y", "z">>

LowerChar(c) ==
    IF \E i \in 1..26 : UpperChars[i] = c
    THEN LowerChars[CHOOSE i \in 1..26 : UpperChars[i] = c]
    ELSE c

\* str.lower()
Lower(s) == [i \in 1..Len(s) |-> LowerChar(s[i])]

\* the value of a run of decimal digits
RECURSIVE DigitsValue(_)
DigitsValue(ds) ==
    IF Len(ds) = 0 THEN 0
    ELSE 10 * DigitsValue(SubSeq(ds, 1, Len(ds) - 1)) + DigitVal(ds[Len(ds)])

\* digits, single underscores allowed between digits (Python's int literal)
IsDigitRun(b) ==
    /\ Len(b) > 0
    /\ IsDigit(b[1])
    /\ IsDigit(b[Len(b)])
    /\ \A i \in 1..Len(b) : IsDigit(b[i]) \/ b[i] = "_"
    /\ \A i \in 1..(Len(b) - 1) : ~(b[i] = "_" /\ b[i + 1] = "_")

DropUnderscores(b) == SelectSeq(b, IsDigit)

Fail == [ok |-> FALSE]

\* int(s) for a str: optional blanks, optional sign, digits
ParseIntStr(s) ==
    LET t == Strip(s)
        signed == Len(t) > 0 /\ t[1] \in {"+", "-"}
        body == IF signed THEN Tail(t) ELSE t
        mag == DigitsValue(DropUnderscores(body))
    IN IF IsDigitRun(body)
       THEN [ok |-> TRUE, n |-> IF signed /\ t[1] = "-" THEN 0 - mag ELSE mag]
       ELSE Fail

\* float(s) for a str of the form [sign] digits [. digits], in hundredths
ParseFloatStr(s) ==
    LET t == Strip(s)
        signed == Len(t) > 0 /\ t[1] \in {"+", "-"}
        body == IF signed THEN Tail(t) ELSE t
        dots == {i \in 1..Len(body) : body[i] = "."}
        dot == IF dots = {} THEN Len(body) + 1 ELSE CHOOSE i \in dots : TRUE
        ip == SubSeq(body, 1, dot - 1)
        fp == SubSeq(body, dot + 1, Len(body))
        digitsOnly(x) == \A i \in 1..Len(x) : IsDigit(x[i])
        frac == IF Len(fp) = 0 THEN 0
                ELSE IF Len(fp) = 1 THEN 10 * DigitVal(fp[1])
                ELSE 10 * DigitVal(fp[1]) + DigitVal(fp[2])
        mag == 100 * DigitsValue(ip) + frac
    IN IF /\ Cardinality(dots) <= 1
          /\ Len(ip) + Len(fp) > 0
          /\ digitsOnly(ip)
          /\ digitsOnly(fp)
       THEN [ok |-> TRUE, c |-> IF signed /\ t[1] = "-" THEN 0 - mag ELSE mag]
       ELSE Fail

\* int(v): [ok, n]; ok = FALSE stands for TypeError / ValueError
PyInt(v) ==
    CASE v.t = "bool" -> [ok |-> TRUE, n |-> IF v.b THEN 1 ELSE 0]
      [] v.t = "int" -> [ok |-> TRUE, n |-> v.n]
      [] v.t = "float" ->
            [ok |-> TRUE, n |-> IF v.c >= 0 THEN v.c \div 100 ELSE 0 - ((0 - v.c) \div 100)]
      [] v.t = "str" -> ParseIntStr(v.s)
      [] OTHER -> Fail

\* float(v): [ok, c]
PyFloat(v) ==
    CASE v.t = "bool" -> [ok |-> TRUE, c |-> IF v.b THEN 100 ELSE 0]
      [] v.t = "int" -> [ok |-> TRUE, c |-> 100 * v.n]
      [] v.t = "float" -> [ok |-> TRUE, c |-> v.c]
      [] v.t = "str" -> ParseFloatStr(v.s)
      [] OTHER -> Fail

\* the decimal digits of a natural number
RECURSIVE NatDigits(_)
NatDigits(n) ==
    IF n < 10 THEN <<DigitChars[n + 1]>>
    ELSE NatDigits(n \div 10) \o <<DigitChars[(n % 10) + 1]>>

IntDigits(n) == IF n < 0 THEN <<"-">> \o NatDigits(0 - n) ELSE NatDigits(n)

\* str(v) as f-strings and str() format it; a list or dict formats to its
\* repr, kept as one opaque symbol
PyStr(v) ==
    CASE v.t = "str" -> v.s
      [] v.t = "none" -> <<"N", "o", "n", "e">>
      [] v.t = "bool" -> IF v.b THEN <<"T", "r", "u", "e">> ELSE <<"F", "a", "l", "s", "e">>
      [] v.t = "int" -> IntDigits(v.n)
      [] v.t = "float" ->
            LET a == IF v.c < 0 THEN 0 - v.c ELSE v.c
                f == a % 100
            IN (IF v.c < 0 THEN <<"-">> ELSE <<>>) \o NatDigits(a \div 100) \o <<".">>
               \o (IF f % 10 = 0 THEN NatDigits(f \div 10)
                   ELSE <<DigitChars[(f \div 10) + 1], DigitChars[(f % 10) + 1]>>)
      [] OTHER -> <<"<repr>">>

---------------------------------------------------------------------------
(* json.loads, on the symbols of the text.  String literals carry no       *)
(* escapes; numbers are integers or decimals.                              *)

At(s, i) == IF i >= 1 /\ i <= Len(s) THEN s[i] ELSE ""

RECURSIVE SkipWs(_, _)
SkipWs(s, i) == IF IsSpace(At(s, i)) THEN SkipWs(s, i + 1) ELSE i

\* the symbols of a string joined into one name (an object's key)
RECURSIVE JoinSyms(_)
JoinSyms(s) == IF Len(s) = 0 THEN "" ELSE Head(s) \o JoinSyms(Tail(s))

ParseFail == [ok |-> FALSE, i |-> 0]

\* a string literal starting at the quote s[i]
ParseString(s, i) ==
    LET closing == {j \in (i + 1)..Len(s) : s[j] = "\""}
        j == CHOOSE k \in closing : \A m \in closing : k <= m
    IN IF At(s, i) = "\"" /\ closing # {}
       THEN [ok |-> TRUE, s |-> SubSeq(s, i + 1, j - 1), i |-> j + 1]
       ELSE ParseFail

IsNumChar(c) == IsDigit(c) \/ c \in {"-", "."}

RECURSIVE NumEnd(_, _)
NumEnd(s, i) == IF IsNumChar(At(s, i)) THEN NumEnd(s, i + 1) ELSE i

\* a number literal starting at s[i]: -? (0 | [1-9][0-9]*) (. [0-9]+)?
ParseNumber(s, i) ==
    LET e == NumEnd(s, i)
        lex == SubSeq(s, i, e - 1)
        neg == Len(lex) > 0 /\ lex[1] = "-"
        body == IF neg THEN Tail(lex) ELSE lex
        dots == {k \in 1..Len(body) : body[k] = "."}
        dot == IF dots = {} THEN Len(body) + 1 ELSE CHOOSE k \in dots : TRUE
        ip == SubSeq(body, 1, dot - 1)
        fp == SubSeq(body, dot + 1, Len(body))
        digitsOnly(x) == \A k \in 1..Len(x) : IsDigit(x[k])
        wellFormed == /\ Cardinality(dots) <= 1
                      /\ Len(ip) > 0
                      /\ digitsOnly(ip)
                      /\ (Len(ip) > 1 => ip[1] # "0")
                      /\ (dots # {} => Len(fp) > 0)
                      /\ digitsOnly(fp)
    IN IF ~wellFormed THEN ParseFail
       ELSE IF dots = {}
       THEN [ok |-> TRUE, v |-> IntV(ParseIntStr(lex).n), i |-> e]
       ELSE [ok |-> TRUE, v |-> FloatV(ParseFloatStr(lex).c), i |-> e]

RECURSIVE ParseValue(_, _)
RECURSIVE ParseElems(_, _, _)
RECURSIVE ParseMembers(_, _, _)

\* after the element r of an array: a comma and more elements, or the end
ElemsNext(s, acc, r, k) ==
    IF At(s, k) = "," THEN ParseElems(s, SkipWs(s, k + 1), Append(acc, r.v))
    ELSE IF At(s, k) = "]" THEN [ok |-> TRUE, v |-> ListV(Append(acc, r.v)), i |-> k + 1]
    ELSE ParseFail

ElemsAfter(s, acc, r) == IF ~r.ok THEN ParseFail ELSE ElemsNext(s, acc, r, SkipWs(s, r.i))

\* the elements of an array from s[i] on, after those in acc
ParseElems(s, i, acc) == ElemsAfter(s, acc, ParseValue(s, i))

\* after the member key: r of an object; a repeated key keeps its last value
MembersNext(s, acc2, k) ==
    IF At(s, k) = "," THEN ParseMembers(s, SkipWs(s, k + 1), acc2)
    ELSE IF At(s, k) = "}" THEN [ok |-> TRUE, v |-> DictV(acc2), i |-> k + 1]
    ELSE ParseFail

MembersAfter(s, acc, key, r) ==
    IF ~r.ok THEN ParseFail
    ELSE MembersNext(s, (JoinSyms(key.s) :> r.v) @@ acc, SkipWs(s, r.i))

MemberValue(s, acc, key, c) ==
    IF ~key.ok THEN ParseFail
    ELSE IF At(s, c) # ":" THEN ParseFail
    ELSE MembersAfter(s, acc, key, ParseValue(s, SkipWs(s, c + 1)))

MemberKey(s, acc, key) == MemberValue(s, acc, key, SkipWs(s, key.i))

\* the members of an object from s[i] on, after those in acc
ParseMembers(s, i, acc) == MemberKey(s, acc, ParseString(s, i))

StringValue(str) ==
    IF str.ok THEN [ok |-> TRUE, v |-> StrV(str.s), i |-> str.i] ELSE ParseFail

ValueAt(s, i, c, j) ==
    CASE c = "{" ->
           IF At(s, j) = "}" THEN [ok |-> TRUE, v |-> DictV(EmptyDict), i |-> j + 1]
           ELSE ParseMembers(s, j, EmptyDict)
      [] c = "[" ->
           IF At(s, j) = "]" THEN [ok |-> TRUE, v |-> ListV(<<>>), i |-> j + 1]
           ELSE ParseElems(s, j, <<>>)
      [] c = "\"" -> StringValue(ParseString(s, i))
      [] c = "true" -> [ok |-> TRUE, v |-> BoolV(TRUE), i |-> i + 1]
      [] c = "false" -> [ok |-> TRUE, v |-> BoolV(FALSE), i |-> i + 1]
      [] c = "null" -> [ok |-> TRUE, v |-> NoneV, i |-> i + 1]
      [] IsNumChar(c) -> ParseNumber(s, i)
      [] OTHER -> ParseFail

\* the JSON value starting at s[i]: [ok, v, i], i the position after it
ParseValue(s, i) == ValueAt(s, i, At(s, i), SkipWs(s, i + 1))

\* the value r parsed from the whole of the text s
WholeText(s, r) ==
    IF r.ok /\ SkipWs(s, r.i) = Len(s) + 1 THEN [ok |-> TRUE, v |-> r.v] ELSE Fail

\* json.loads(x): [ok, v]; ok = FALSE stands for the exception (a text that
\* is not JSON, or an argument that is not a str)
json_loads(x) ==
    IF x.t = "str" THEN WholeText(x.s, ParseValue(x.s, SkipWs(x.s, 1))) ELSE Fail

---------------------------------------------------------------------------
(* The settings the host stores, and the request generate_image builds     *)

\* the schema of get_extra_settings: each declared key with its default
DefaultSettings ==
    ("url" :> StrV(<<"http:", "/", "/", "localhost:7861">>))
    @@ ("positive-prompt" :> StrV(<<"[input]">>))
    @@ ("negative-prompt" :> StrV(<<"(worst quality, low quality:1.4), ...">>))
    @@ [width |-> IntV(512),
        height |-> IntV(512),
        steps |-> IntV(20),
        guidance_scale |-> IntV(7),
        seed |-> StrV(<<"-", "1">>),
        hires_fix |-> IntV(0),
        adetailer |-> IntV(0),
        img2img_enabled |-> IntV(0),
        img2img_image |-> StrV(<<>>),
        stable_fast |-> IntV(0),
        reuse_seed |-> IntV(0),
        flux_enabled |-> IntV(0),
        prio_speed |-> IntV(0),
        realistic_model |-> IntV(0),
        multiscale_enabled |-> IntV(1),
        multiscale_intermittent |-> IntV(1),
        multiscale_factor |-> FloatV(50),
        multiscale_fullres_start |-> IntV(3),
        multiscale_fullres_end |-> IntV(8),
        keep_models_loaded |-> IntV(1),
        extra_payload |-> StrV(<<"{", "}">>)]

\* self.get_setting(name): the stored value, None for a key never stored
get_setting(S, name) == IF name \in DOMAIN S THEN S[name] ELSE NoneV

get_int(S, name, default) ==
    LET v == get_setting(S, name)
        r == PyInt(v)
    IN IF v.t = "none" THEN default
       ELSE IF r.ok THEN r.n
       ELSE default

get_float(S, name, default) ==
    LET v == get_setting(S, name)
        r == PyFloat(v)
    IN IF v.t = "none" THEN default
       ELSE IF r.ok THEN r.c
       ELSE default

TrueWords == {<<"t", "r", "u", "e">>, <<"y", "e", "s">>, <<"o", "n">>, <<"1">>}

FalseWords == {<<"f", "a", "l", "s", "e">>, <<"n", "o">>, <<"o", "f", "f">>, <<"0">>}

get_bool(S, name, default) ==
    LET v == get_setting(S, name)
        r == PyInt(v)
        s == Lower(Strip(PyStr(v)))
    IN IF v.t = "none" THEN default
       ELSE IF v.t = "bool" THEN v.b
       ELSE IF r.ok THEN r.n # 0
       ELSE IF s \in TrueWords THEN TRUE
       ELSE IF s \in FalseWords THEN FALSE
       ELSE default

\* str.replace(old, new) where old is the one symbol "[input]"
RECURSIVE Replace(_, _, _)
Replace(s, old, new) ==
    IF Len(s) = 0 THEN <<>>
    ELSE (IF Head(s) = old THEN new ELSE <<Head(s)>>) \o Replace(Tail(s), old, new)

\* a variant of BaseUrl that keeps the trailing slashes
BaseUrlKeepSlashes(S) ==
    PyStr(PyOr(get_setting(S, "url"), StrV(<<"http:", "/", "/", "localhost:7861">>)))

\* base_url: the url setting, or the default, without trailing slashes
BaseUrl(S) ==
    RStripChar(PyStr(PyOr(get_setting(S, "url"), StrV(<<"http:", "/", "/", "localhost:7861">>))), "/")

\* a variant of Dimension that falls back to 0
DimensionZeroFallback(S, name) ==
    LET r == PyInt(get_setting(S, name)) IN IF r.ok THEN r.n ELSE 0

\* width and height: int(setting), 512 on any exception
Dimension(S, name) ==
    LET r == PyInt(get_setting(S, name)) IN IF r.ok THEN r.n ELSE 512

\* steps: int(setting) or None
Steps(S) ==
    LET v == get_setting(S, "steps")
        r == PyInt(v)
    IN IF v.t # "none" /\ r.ok THEN IntV(r.n) ELSE NoneV

\* guidance_scale: float(setting) or None
GuidanceScale(S) ==
    LET v == get_setting(S, "guidance_scale")
        r == PyFloat(v)
    IN IF v.t # "none" /\ r.ok THEN FloatV(r.c) ELSE NoneV

\* seed: -1 for None, "" and "-1", else int(setting), -1 on any exception
Seed(S) ==
    LET v == get_setting(S, "seed")
        r == PyInt(v)
    IN IF v \in {NoneV, StrV(<<>>), StrV(<<"-", "1">>)} THEN 0 - 1
       ELSE IF r.ok THEN r.n
       ELSE 0 - 1

\* extra_payload: json.loads of the setting (or of "{}"), {} on any exception
LoadedOrEmpty(r) == IF r.ok THEN r.v ELSE DictV(EmptyDict)

ExtraPayload(S) ==
    LoadedOrEmpty(json_loads(PyOr(get_setting(S, "extra_payload"), StrV(<<"{", "}">>))))

\* extra_payload.get("endpoint_path", "/api/generate"), for a dict
EndpointPath(extra) ==
    IF "endpoint_path" \in DOMAIN extra.d THEN extra.d["endpoint_path"]
    ELSE StrV(<<"/", "api", "/", "generate">>)

\* the check before dispatch: bool(int(img2img_enabled or 0)), False on any
\* exception
Img2ImgGuard(S) ==
    LET r == PyInt(PyOr(get_setting(S, "img2img_enabled"), IntV(0)))
    IN IF r.ok THEN r.n # 0 ELSE FALSE

\* a variant of ReuseSeed that honours only the toggle
ReuseSeedToggleOnly(S, seed) == get_bool(S, "reuse_seed", FALSE)

\* (seed != -1) or get_bool("reuse_seed", False)
ReuseSeed(S, seed) == IF seed # 0 - 1 THEN TRUE ELSE get_bool(S, "reuse_seed", FALSE)

\* the payload literal
PayloadLiteral(S, prompt, seed) ==
    [prompt |-> StrV(Replace(PyOr(get_setting(S, "positive-prompt"), StrV(<<"[input]">>)).s,
                             "[input]", prompt)),
     negative_prompt |-> PyOr(get_setting(S, "negative-prompt"), StrV(<<>>)),
     width |-> IntV(Dimension(S, "width")),
     height |-> IntV(Dimension(S, "height")),
     num_images |-> IntV(get_int(S, "num_images", 1)),
     batch_size |-> IntV(get_int(S, "batch_size", 1)),
     hires_fix |-> BoolV(get_bool(S, "hires_fix", FALSE)),
     adetailer |-> BoolV(get_bool(S, "adetailer", FALSE)),
     enhance_prompt |-> BoolV(get_bool(S, "enhance_prompt", FALSE)),
     img2img_enabled |-> BoolV(get_bool(S, "img2img_enabled", FALSE)),
     img2img_image |-> PyOr(get_setting(S, "img2img_image"), NoneV),
     stable_fast |-> BoolV(get_bool(S, "stable_fast", FALSE)),
     reuse_seed |-> BoolV(ReuseSeed(S, seed)),
     flux_enabled |-> BoolV(get_bool(S, "flux_enabled", FALSE)),
     prio_speed |-> BoolV(get_bool(S, "prio_speed", FALSE)),
     realistic_model |-> BoolV(get_bool(S, "realistic_model", FALSE)),
     multiscale_enabled |-> BoolV(get_bool(S, "multiscale_enabled", TRUE)),
     multiscale_intermittent |-> BoolV(get_bool(S, "multiscale_intermittent", FALSE)),
     multiscale_factor |-> FloatV(get_float(S, "multiscale_factor", 50)),
     multiscale_fullres_start |-> IntV(get_int(S, "multiscale_fullres_start", 3)),
     multiscale_fullres_end |-> IntV(get_int(S, "multiscale_fullres_end", 8)),
     keep_models_loaded |-> BoolV(get_bool(S, "keep_models_loaded", TRUE)),
     enable_preview |-> BoolV(get_bool(S, "enable_preview", FALSE))]

\* payload[key] = v, done when v is not None
Attach(payload, key, v) == IF v = NoneV THEN payload ELSE (key :> v) @@ payload

\* a variant of SeedAttached that leaves the seed 0 out
SeedAttachedPositive(seed) == IF seed > 0 THEN IntV(seed) ELSE NoneV

\* the seed attached: only a seed >= 0
SeedAttached(seed) == IF seed >= 0 THEN IntV(seed) ELSE NoneV

PayloadWithSeed(S, prompt, seed) ==
    Attach(Attach(Attach(PayloadLiteral(S, prompt, seed), "steps", Steps(S)),
                  "guidance_scale", GuidanceScale(S)),
           "seed", SeedAttached(seed))

\* the payload literal, then the steps, guidance_scale and seed attached
SettingsPayload(S, prompt) == PayloadWithSeed(S, prompt, Seed(S))

\* a variant of MergeExtra in which a key of the payload keeps its value
MergeExtraFirstWins(payload, extra) ==
    LET keys == (DOMAIN extra \ {"endpoint_path"}) \ DOMAIN payload
    IN [k \in DOMAIN payload \cup keys |-> IF k \in keys THEN extra[k] ELSE payload[k]]

\* payload.update(extra) without the meta key endpoint_path
MergeExtra(payload, extra) ==
    LET keys == DOMAIN extra \ {"endpoint_path"}
    IN [k \in DOMAIN payload \cup keys |-> IF k \in keys THEN extra[k] ELSE payload[k]]

\* generate_image up to requests.post: the request dispatched ("post"), the
\* client-side rejection ("reject"), or an exception caught by the outer
\* handler ("raise": .get on an overlay that is no dict, .replace on a
\* template that is no str, .strip on an image path that is no str)
RequestWith(S, prompt, extra, pos_tpl, img_raw) ==
    IF extra.t # "dict" THEN [kind |-> "raise"]
    ELSE IF pos_tpl.t # "str" THEN [kind |-> "raise"]
    ELSE IF img_raw.t # "str" THEN [kind |-> "raise"]
    ELSE IF Img2ImgGuard(S) /\ Len(Strip(img_raw.s)) = 0 THEN [kind |-> "reject"]
    ELSE [kind |-> "post",
          url |-> BaseUrl(S) \o PyStr(EndpointPath(extra)),
          payload |-> MergeExtra(SettingsPayload(S, prompt), extra.d)]

BuildRequest(S, prompt) ==
    RequestWith(S, prompt, ExtraPayload(S),
                PyOr(get_setting(S, "positive-prompt"), StrV(<<"[input]">>)),
                PyOr(get_setting(S, "img2img_image"), StrV(<<>>)))

---------------------------------------------------------------------------
(* Files, images and the widget                                            *)

B64Chars == UpperChars \o LowerChars \o DigitChars \o <<"+", "/">>

IsB64(c) == \E i \in 1..64 : B64Chars[i] = c

B64Val(c) == (CHOOSE i \in 1..64 : B64Chars[i] = c) - 1

\* the bytes of the full 4-character groups of d, then of its last 2 or 3
RECURSIVE B64Bytes(_)
B64Bytes(d) ==
    IF Len(d) >= 4
    THEN LET v == 262144 * B64Val(d[1]) + 4096 * B64Val(d[2]) + 64 * B64Val(d[3]) + B64Val(d[4])
         IN <<v \div 65536, (v \div 256) % 256, v % 256>> \o B64Bytes(SubSeq(d, 5, Len(d)))
    ELSE IF Len(d) = 3
    THEN LET v == 4096 * B64Val(d[1]) + 64 * B64Val(d[2]) + B64Val(d[3])
         IN <<v \div 1024, (v \div 4) % 256>>
    ELSE IF Len(d) = 2
    THEN <<(64 * B64Val(d[1]) + B64Val(d[2])) \div 16>>
    ELSE <<>>

IsPad(c) == c = "="

\* base64.b64decode(s): characters outside the alphabet are discarded; a
\* last group of 2 or 3 characters needs its padding, one of 1 is an error
b64decode(s) ==
    LET d == SelectSeq(s, IsB64)
        pads == Len(SelectSeq(s, IsPad))
        rem == Len(d) % 4
    IN IF rem = 0 \/ (rem = 2 /\ pads >= 2) \/ (rem = 3 /\ pads >= 1)
       THEN [ok |-> TRUE, bytes |-> B64Bytes(d)]
       ELSE Fail

\* s.startswith(prefix)
StartsWith(s, prefix) == Len(s) >= Len(prefix) /\ SubSeq(s, 1, Len(prefix)) = prefix

\* b64_data.split(",", 1)[1], for a text holding a comma
AfterFirstComma(s) ==
    LET commas == {i \in 1..Len(s) : s[i] = ","}
        i == CHOOSE k \in commas : \A m \in commas : k <= m
    IN SubSeq(s, i + 1, Len(s))

Pixbuf(px) == [t |-> "pixbuf", px |-> px]

\* GdkPixbuf.Pixbuf.new_from_file on a file's bytes: a PNG is its signature
\* byte and the pixels; anything else is no image
PixbufFromBytes(b) ==
    IF Len(b) >= 2 /\ b[1] = 137 THEN [ok |-> TRUE, pixbuf |-> Pixbuf(Tail(b))] ELSE Fail

\* pixbuf.savev(path, "png"): the bytes written
PngBytes(pixbuf) == <<137>> \o pixbuf.px

\* os.path.join(a, b)
PathJoin(a, b) == IF Len(b) > 0 /\ b[1] = "/" THEN b ELSE a \o <<"/">> \o b

\* self.cache_dir
CacheDir == <<"ext", "/", "generated_images">>

\* a variant of CacheOut that names latest.png for every message
CacheOutLatest(msg_uuid) == PathJoin(CacheDir, <<"latest", ".png">>)

\* cache_out of generate_image: f"{msg_uuid or 'latest'}.png" in the cache
CacheOut(msg_uuid) ==
    PathJoin(CacheDir, PyStr(PyOr(msg_uuid, StrV(<<"latest">>))) \o <<".png">>)

\* cached_path of restore_gtk_widget: f"{msg_uuid}.png" in the cache
CachedPath(msg_uuid) == PathJoin(CacheDir, PyStr(msg_uuid) \o <<".png">>)

\* os.path.exists
Exists(fs, path) == path \in DOMAIN fs

WriteFile(fs, path, bytes) == (path :> bytes) @@ fs

\* _save_base64_png(b64_data, out_path): [ok, files]; ok = FALSE is the
\* exception (b64_data no str, open failing, a decode error after the file
\* was opened for writing)
save_base64_png(fs, b64_data, out_path, io) ==
    LET s == b64_data.s
        hasComma == \E i \in 1..Len(s) : s[i] = ","
        body == IF hasComma /\ StartsWith(Strip(s), <<"d", "a", "t", "a", ":">>)
                THEN AfterFirstComma(s)
                ELSE s
        d == b64decode(body)
        opened == WriteFile(fs, out_path, <<>>)
    IN IF b64_data.t \in {"none", "bool", "int", "float"} THEN [ok |-> FALSE, files |-> fs]
       ELSE IF io = "oserror" THEN [ok |-> FALSE, files |-> fs]
       ELSE IF b64_data.t # "str" THEN [ok |-> FALSE, files |-> opened]
       ELSE IF ~d.ok THEN [ok |-> FALSE, files |-> opened]
       ELSE [ok |-> TRUE, files |-> WriteFile(fs, out_path, d.bytes)]

---------------------------------------------------------------------------
(* _extract_prompt_from_block.  A text is a sequence of symbols; the tags  *)
(* are spelt letter by letter, so that re.IGNORECASE is Lower.             *)

\* the back-tick character, which a string here cannot hold
Backtick == "tick"

\* "```"
Ticks == <<Backtick, Backtick, Backtick>>

EndsWith(s, suffix) ==
    Len(s) >= Len(suffix) /\ SubSeq(s, Len(s) - Len(suffix) + 1, Len(s)) = suffix

\* strip_ticks after its first strip(): s[3:-3] when wrapped, and strip()
Unticked(s) ==
    IF StartsWith(s, Ticks) /\ EndsWith(s, Ticks) /\ Len(s) >= 6
    THEN Strip(SubSeq(s, 4, Len(s) - 3))
    ELSE Strip(s)

strip_ticks(s) == Unticked(Strip(s))

\* the symbols \w does not match; every other symbol stands for word
\* characters
NonWordChars == {" ", "\t", "\n", ":", "-", Backtick, ",", "."}

IsWordChar(c) == c \notin NonWordChars

generateimage == <<"g", "e", "n", "e", "r", "a", "t", "e", "i", "m", "a", "g", "e">>

lightdiffusion ==
    <<"l", "i", "g", "h", "t", "d", "i", "f", "f", "u", "s", "i", "o", "n">>

\* tag_patterns, each tag standing for ^tag\b[:\-]?
tag_patterns == <<generateimage, lightdiffusion>>

\* the number of symbols ^tag\b[:\-]? matches at the start of s under
\* re.IGNORECASE, 0 when it does not match
TagMatch(s, tag) ==
    IF Len(s) < Len(tag) THEN 0
    ELSE IF Lower(SubSeq(s, 1, Len(tag))) # tag THEN 0
    ELSE IF Len(s) = Len(tag) THEN Len(tag)
    ELSE IF IsWordChar(s[Len(tag) + 1]) THEN 0
    ELSE IF s[Len(tag) + 1] \in {":", "-"} THEN Len(tag) + 1
    ELSE Len(tag)

\* what follows the first n symbols of s and the white space after them
AfterSpace(s, n) == LStrip(SubSeq(s, n + 1, Len(s)))

\* re.sub(tag_re + r"\s*", "", s, count=1, flags=re.IGNORECASE)
SubTag(s, tag) == IF TagMatch(s, tag) = 0 THEN s ELSE AfterSpace(s, TagMatch(s, tag))

\* for tag_re in tag_patterns: s = re.sub(...)
SubTags(s) == SubTag(SubTag(s, tag_patterns[1]), tag_patterns[2])

\* (.*)$ matches the whole of rest: no newline but a last one
ToLineEnd(rest) == \A i \in 1..Len(rest) : rest[i] = "\n" => i = Len(rest)

\* re.match(tag_re + r"\s*(.*)$", info, re.IGNORECASE): does it match
InfoMatches(info, tag) ==
    TagMatch(info, tag) > 0 /\ ToLineEnd(AfterSpace(info, TagMatch(info, tag)))

\* m.group(1).strip() of that match
InfoPrompt(info, tag) == Strip(AfterSpace(info, TagMatch(info, tag)))

\* re.match(tag_re + r"$", info, re.IGNORECASE)
InfoIsTag(info, tag) ==
    /\ TagMatch(info, tag) > 0
    /\ Len(AfterSpace(info, TagMatch(info, tag))) = 0
    /\ SubSeq(info, TagMatch(info, tag) + 1, Len(info)) \in {<<>>, <<"\n">>}

\* the second look at a body that still starts with back-ticks
Inner(body) ==
    IF StartsWith(body, Ticks) THEN Strip(Strip(SubTags(strip_ticks(body))))
    ELSE Strip(body)

\* the body cleaned up: strip_ticks, the tags, the second look
CleanBody(body) == Inner(SubTags(strip_ticks(body)))

\* a variant of FromInfo that never reads the info string
FromInfoIgnored(info) == CleanBody(<<>>)

\* the body is empty and the info string is not: the prompt of the first
\* pattern that matches, "" for a bare tag, else the cleaned empty body
FromInfo(info) ==
    IF InfoMatches(info, tag_patterns[1]) THEN InfoPrompt(info, tag_patterns[1])
    ELSE IF InfoMatches(info, tag_patterns[2]) THEN InfoPrompt(info, tag_patterns[2])
    ELSE IF InfoIsTag(info, tag_patterns[1]) THEN <<>>
    ELSE IF InfoIsTag(info, tag_patterns[2]) THEN <<>>
    ELSE CleanBody(<<>>)

\* the prompt for the stripped body and info string
Extracted(body, info) ==
    IF Len(body) = 0 /\ Len(info) > 0 THEN FromInfo(info) ELSE CleanBody(body)

\* _extract_prompt_from_block(codeblock, lang)
_extract_prompt_from_block(codeblock, lang) ==
    Extracted(Strip(PyOr(codeblock, StrV(<<>>)).s), Strip(PyOr(lang, StrV(<<>>)).s))

NoWidget == [t |-> "nowidget"]

EmptyImage == [t |-> "empty"]

MissingIcon == [t |-> "icon", name |-> "image-missing"]

\* show_loading(show) called by thread `by`
show_loading(wd, show, by) ==
    [wd EXCEPT !.loading = show,
               !.log = Append(@, [op |-> "show_loading", show |-> show, by |-> by])]

\* ImageGeneratorWidget.__init__ on the UI thread, ending in show_loading(True)
NewWidget ==
    show_loading([loading |-> FALSE, current_pixbuf |-> NoneV, current_url |-> NoneV,
                  prompt |-> NoneV, image |-> EmptyImage, log |-> <<>>],
                 TRUE, "ui")

set_prompt(wd, prompt) == [wd EXCEPT !.prompt = StrV(prompt)]

\* self.current_pixbuf = pixbuf by thread `by`
set_current_pixbuf(wd, pixbuf, by) ==
    [wd EXCEPT !.current_pixbuf = pixbuf,
               !.log = Append(@, [op |-> "current_pixbuf", by |-> by])]

\* scale_pixbuf_to_fit: None stays None
scale_pixbuf_to_fit(pixbuf) ==
    IF pixbuf.t = "none" THEN pixbuf ELSE [t |-> "pixbuf", px |-> pixbuf.px, scaled |-> TRUE]

\* self.image.set_from_pixbuf(scaled) by thread `by`
set_from_pixbuf(wd, scaled, by) ==
    [wd EXCEPT !.image = IF scaled.t = "none" THEN EmptyImage ELSE scaled,
               !.log = Append(@, [op |-> "image", by |-> by])]

\* self.image.set_from_icon_name("image-missing") by thread `by`
set_from_icon_name(wd, by) ==
    [wd EXCEPT !.image = MissingIcon,
               !.log = Append(@, [op |-> "image", by |-> by])]

\* save_image(file_path): [ok, files]; ValueError without a pixbuf
save_image(fs, wd, file_path, io) ==
    IF wd.current_pixbuf.t = "none" THEN [ok |-> FALSE, files |-> fs]
    ELSE IF io = "oserror" THEN [ok |-> FALSE, files |-> fs]
    ELSE [ok |-> TRUE, files |-> WriteFile(fs, file_path, PngBytes(wd.current_pixbuf))]

---------------------------------------------------------------------------
(* The operations.  Threads: "ui" (the main loop), "gen" (the thread       *)
(* get_gtk_widget starts on generate_image), "loader" (load_in_thread).    *)

MaxWidgets == 2

WIds == 1..MaxWidgets

NoGen == [pc |-> "none"]

\* the widget the next get_gtk_widget or restore_gtk_widget call creates
NextW == Cardinality({w \in WIds : widgets[w] # NoWidget}) + 1

\* a variant of show_error_message that only prints the message
show_error_message_print_only(wd, by) == wd

\* show_error_message(msg): the message is printed, the loading state reset
show_error_message(wd, by) == show_loading(wd, FALSE, by)

\* set_image_from_path(path) called by `by`: the widget, and the loader
\* thread started
set_image_from_path(wd, by) == show_loading(wd, TRUE, by)

\* set_image_from_url(url, callback) called by `by`; ext = "raise" when
\* load_image_with_callback raises at once, and load_error_callback runs
set_image_from_url(wd, url, by, ext) ==
    LET started == show_loading([wd EXCEPT !.current_url = url], TRUE, by)
    IN IF ext = "raise"
       THEN set_from_icon_name(show_loading(started, FALSE, by), by)
       ELSE started

\* download_and_save(save_path) called by `by` for widget w: ValueError
\* without a URL (raised); the image already loaded is saved, an exception
\* of save_image caught; else the URL is loaded again, download_complete
\* its callback
download_and_save(fs, wd, w, save_path, by, io, ext) ==
    IF ~Truthy(wd.current_url) THEN [raised |-> TRUE, wd |-> wd, fs |-> fs, ul |-> {}]
    ELSE IF wd.current_pixbuf.t # "none"
    THEN [raised |-> FALSE, wd |-> wd, fs |-> save_image(fs, wd, save_path, io).files,
          ul |-> {}]
    ELSE [raised |-> FALSE,
          wd |-> set_image_from_url(wd, wd.current_url, by, ext),
          fs |-> fs,
          ul |-> IF ext = "raise" THEN {}
                 ELSE {[w |-> w, url |-> wd.current_url,
                        cb |-> [k |-> "download_complete", path |-> save_path]]}]

\* get_gtk_widget(codeblock, lang, msg_uuid), on the UI thread; the thread
\* started on generate_image is given the normalized prompt
GetGtkWidget(codeblock, lang, msg_uuid) ==
    /\ NextW \in WIds
    /\ widgets' = [widgets EXCEPT ![NextW] =
                     set_prompt(NewWidget, _extract_prompt_from_block(codeblock, lang))]
    /\ gens' = [gens EXCEPT ![NextW] =
                  [pc |-> "start", codeblock |-> codeblock, lang |-> lang,
                   prompt |-> _extract_prompt_from_block(codeblock, lang),
                   msg |-> msg_uuid, req |-> NoneV, posts |-> 0,
                   data |-> NoneV, cache_out |-> <<>>, shape |-> "none", err |-> "none"]]
    /\ UNCHANGED <<settings, loaders, urlLoads, idleq, files>>

\* restore_gtk_widget(codeblock, lang, msg_uuid), on the UI thread
RestoreGtkWidget(codeblock, lang, msg_uuid) ==
    LET wd == set_prompt(NewWidget, _extract_prompt_from_block(codeblock, lang))
        cached_path == CachedPath(msg_uuid)
        found == Exists(files, cached_path)
    IN /\ NextW \in WIds
       /\ widgets' = [widgets EXCEPT ![NextW] =
                        IF found THEN set_image_from_path(wd, "ui") ELSE wd]
       /\ gens' = [gens EXCEPT ![NextW] =
                     [pc |-> "restored", codeblock |-> codeblock, lang |-> lang,
                      msg |-> msg_uuid, posts |-> 0, path |-> cached_path,
                      found |-> found]]
       /\ loaders' = IF found THEN loaders \cup {[w |-> NextW, path |-> cached_path]}
                     ELSE loaders
       /\ UNCHANGED <<settings, urlLoads, idleq, files>>

\* a variant of OuterHandler that starts generate_image again
OuterHandlerRetry(g, wd) ==
    [g |-> [g EXCEPT !.pc = "start", !.err = "exception"],
     wd |-> show_error_message(wd, "gen")]

\* the except clause of generate_image: the traceback is printed and
\* show_error_message called
OuterHandler(g, wd) ==
    [g |-> [g EXCEPT !.pc = "done", !.err = "exception"],
     wd |-> show_error_message(wd, "gen")]

\* the step of generate_image that ends with the request req
Built(w, g, req) ==
    /\ gens' = [gens EXCEPT ![w] =
                  IF req.kind = "post"
                  THEN [g EXCEPT !.pc = "posted", !.req = req, !.posts = @ + 1]
                  ELSE IF req.kind = "reject" THEN [g EXCEPT !.pc = "done", !.err = "img2img"]
                  ELSE OuterHandler(g, widgets[w]).g]
    /\ widgets' = [widgets EXCEPT ![w] =
                     IF req.kind = "post" THEN @
                     ELSE IF req.kind = "reject" THEN show_error_message(@, "gen")
                     ELSE OuterHandler(g, @).wd]
    /\ UNCHANGED <<settings, loaders, urlLoads, idleq, files>>

\* generate_image from its start to requests.post being called
GenBuild(w) ==
    /\ gens[w].pc = "start"
    /\ Built(w, gens[w], BuildRequest(settings, gens[w].prompt))

\* data.get(key) for a dict
DictGet(data, key) == IF key \in DOMAIN data.d THEN data.d[key] ELSE NoneV

\* a variant of ResponseShape that tries the single image before the list
ResponseShapeImageFirst(data) ==
    IF data.t # "dict" THEN "unexpected"
    ELSE IF DictGet(data, "image").t = "str" THEN "image"
    ELSE IF DictGet(data, "images").t = "list" /\ Len(DictGet(data, "images").xs) > 0
    THEN "images"
    ELSE IF DictGet(data, "image_url").t = "str" THEN "image_url"
    ELSE IF DictGet(data, "file_path").t = "str" THEN "file_path"
    ELSE "unexpected"

\* a variant of ResponseShape that takes an image of any type
ResponseShapeAnyImage(data) ==
    IF data.t # "dict" THEN "unexpected"
    ELSE IF DictGet(data, "images").t = "list" /\ Len(DictGet(data, "images").xs) > 0
    THEN "images"
    ELSE IF DictGet(data, "image").t # "none" THEN "image"
    ELSE IF DictGet(data, "image_url").t = "str" THEN "image_url"
    ELSE IF DictGet(data, "file_path").t = "str" THEN "file_path"
    ELSE "unexpected"

\* the response interpretation tried in order: the first that matches
ResponseShape(data) ==
    IF data.t # "dict" THEN "unexpected"
    ELSE IF DictGet(data, "images").t = "list" /\ Len(DictGet(data, "images").xs) > 0
    THEN "images"
    ELSE IF DictGet(data, "image").t = "str" THEN "image"
    ELSE IF DictGet(data, "image_url").t = "str" THEN "image_url"
    ELSE IF DictGet(data, "file_path").t = "str" THEN "file_path"
    ELSE "unexpected"

\* what a step of generate_image leaves: the call's record, the widget, the
\* files, the loader threads and URL loads it started
Effect(g, wd, fs, ld, ul) == [g |-> g, wd |-> wd, fs |-> fs, ld |-> ld, ul |-> ul]

\* an exception caught by the outer handler, the files as fs
Caught(g, wd, fs) == Effect(OuterHandler(g, wd).g, OuterHandler(g, wd).wd, fs, {}, {})

\* branches 1 and 2 after _save_base64_png: set_image_from_path(cache_out)
AfterSave(w, g, wd, saved, cache_out) ==
    IF saved.ok
    THEN Effect([g EXCEPT !.pc = "done"], set_image_from_path(wd, "gen"), saved.files,
                {[w |-> w, path |-> cache_out]}, {})
    ELSE Caught(g, wd, saved.files)

\* branch 3: set_image_from_url with the caching callback
FromUrl(w, g, wd, url, cache_out, ext) ==
    Effect([g EXCEPT !.pc = "done"], set_image_from_url(wd, url, "gen", ext), files, {},
           IF ext = "raise" THEN {}
           ELSE {[w |-> w, url |-> url, cb |-> [k |-> "lambda", path |-> cache_out]]})

\* branch 4 after download_and_save, an exception of which is swallowed
AfterCopy(w, g, path, copied) ==
    Effect([g EXCEPT !.pc = "done"], copied.wd, copied.fs, {[w |-> w, path |-> path.s]},
           copied.ul)

\* the branch taken for the answer data of the shape found
Branch(w, g, wd, data, shape, cache_out, io, ext) ==
    CASE shape = "images" ->
           AfterSave(w, g, wd,
                     save_base64_png(files, DictGet(data, "images").xs[1], cache_out, io),
                     cache_out)
      [] shape = "image" ->
           AfterSave(w, g, wd,
                     save_base64_png(files, DictGet(data, "image"), cache_out, io),
                     cache_out)
      [] shape = "image_url" -> FromUrl(w, g, wd, DictGet(data, "image_url"), cache_out, ext)
      [] shape = "file_path" ->
           AfterCopy(w, g, DictGet(data, "file_path"),
                     download_and_save(files, set_image_from_path(wd, "gen"), w, cache_out,
                                       "gen", io, ext))
      [] OTHER ->
           Effect([g EXCEPT !.pc = "done", !.err = "unexpected"],
                  show_error_message(wd, "gen"), files, {}, {})

Interpret(w, g, wd, data, shape, io, ext) ==
    Branch(w, [g EXCEPT !.data = data, !.shape = shape, !.cache_out = CacheOut(g.msg)], wd,
           data, shape, CacheOut(g.msg), io, ext)

\* resp.json() and the interpretation of its result
Parsed(w, g, wd, parsed, io, ext) ==
    IF ~parsed.ok THEN Caught(g, wd, files)
    ELSE Interpret(w, g, wd, parsed.v, ResponseShape(parsed.v), io, ext)

Responded(w, g, wd, r, io, ext) ==
    IF r.net = "raise" THEN Caught(g, wd, files)
    ELSE IF ~r.ok
    THEN Effect([g EXCEPT !.pc = "done", !.err = "http"], show_error_message(wd, "gen"),
                files, {}, {})
    ELSE Parsed(w, g, wd, json_loads(StrV(r.text)), io, ext)

Commit(w, eff) ==
    /\ gens' = [gens EXCEPT ![w] = eff.g]
    /\ widgets' = [widgets EXCEPT ![w] = eff.wd]
    /\ files' = eff.fs
    /\ loaders' = loaders \cup eff.ld
    /\ urlLoads' = urlLoads \cup eff.ul
    /\ UNCHANGED <<settings, idleq>>

\* generate_image from the return of requests.post to its own return.
\* r is what the backend did: [net |-> "raise"] (no answer), or an answer
\* [net |-> "ok", ok, text]; io is whether opening the cache file works;
\* ext is whether load_image_with_callback raises at once.
GenRespond(w, r, io, ext) ==
    /\ gens[w].pc = "posted"
    /\ Commit(w, Responded(w, gens[w], widgets[w], r, io, ext))

\* load_in_thread of set_image_from_path, on its own thread
LoadInThread(l) ==
    LET r == IF Exists(files, l.path) THEN PixbufFromBytes(files[l.path]) ELSE Fail
    IN /\ l \in loaders
       /\ loaders' = loaders \ {l}
       /\ widgets' = [widgets EXCEPT ![l.w] =
                        IF r.ok THEN set_current_pixbuf(@, r.pixbuf, "loader") ELSE @]
       /\ idleq' = Append(idleq,
                          IF r.ok THEN [w |-> l.w, k |-> "update_ui", pixbuf |-> r.pixbuf]
                          ELSE [w |-> l.w, k |-> "show_error", pixbuf |-> NoneV])
       /\ UNCHANGED <<settings, gens, urlLoads, files>>

\* the pixels the backend serves at a URL
RemoteImage(url) == <<85>>

\* load_image_with_callback (the host's loader) finishing the load u: it
\* schedules the callback with its pixbuf loader on the main loop ("ok";
\* "nopixbuf" when the loader holds no image), or fails and calls nothing
UrlFetch(u, res) ==
    /\ u \in urlLoads
    /\ urlLoads' = urlLoads \ {u}
    /\ idleq' = IF res = "fail" THEN idleq
                ELSE Append(idleq,
                            [w |-> u.w, k |-> "load_complete", cb |-> u.cb,
                             pixbuf |-> IF res = "ok" THEN Pixbuf(RemoteImage(u.url))
                                        ELSE NoneV])
    /\ UNCHANGED <<settings, widgets, gens, loaders, files>>

\* a variant of update_ui that leaves the loading indicator as it is
update_ui_image_only(wd, pixbuf) == set_from_pixbuf(wd, scale_pixbuf_to_fit(pixbuf), "ui")

\* update_ui of set_image_from_path, run by the main loop
update_ui(wd, pixbuf) ==
    show_loading(set_from_pixbuf(wd, scale_pixbuf_to_fit(pixbuf), "ui"), FALSE, "ui")

\* show_error of set_image_from_path, run by the main loop
show_error(wd) == set_from_icon_name(show_loading(wd, FALSE, "ui"), "ui")

\* load_complete_callback of set_image_from_url up to show_loading(False)
load_complete_callback(wd, pixbuf) ==
    show_loading(set_from_pixbuf(set_current_pixbuf(wd, pixbuf, "ui"),
                                 scale_pixbuf_to_fit(pixbuf), "ui"),
                 FALSE, "ui")

\* the main loop running the first scheduled callback: update_ui or
\* show_error of set_image_from_path, load_complete_callback of
\* set_image_from_url followed by the callback it was given
IdleRun(io, ext) ==
    LET c == Head(idleq)
        wd == widgets[c.w]
        loaded == load_complete_callback(wd, c.pixbuf)
        d == download_and_save(files, loaded, c.w, c.cb.path, "ui", io, ext)
    IN /\ Len(idleq) > 0
       /\ idleq' = Tail(idleq)
       /\ widgets' = [widgets EXCEPT ![c.w] =
            IF c.k = "update_ui" THEN update_ui(wd, c.pixbuf)
            ELSE IF c.k = "show_error" THEN show_error(wd)
            ELSE IF c.cb.k = "lambda" THEN d.wd
            ELSE loaded]
       /\ files' = IF c.k # "load_complete" THEN files
                   ELSE IF c.cb.k = "lambda" THEN d.fs
                   ELSE save_image(files, loaded, c.cb.path, io).files
       /\ urlLoads' = IF c.k = "load_complete" /\ c.cb.k = "lambda"
                      THEN urlLoads \cup d.ul
                      ELSE urlLoads
       /\ UNCHANGED <<settings, gens, loaders>>

---------------------------------------------------------------------------
(* The inputs: message identifiers, backend answers, stored settings       *)

Prompt == <<"a", " ", "cat">>

\* the info string of a fenced generateimage block
Lang == StrV(generateimage)

Cat == <<"c", "a", "t">>

\* prompts: bare ones, one of two lines, one led by a tag, one in back-ticks
Prompts ==
    {<<>>, Cat, <<"a", " ">> \o Cat, <<":", "x">>, <<"a", "\n", "b">>,
     lightdiffusion \o <<" ">> \o Cat, generateimage \o <<" ">> \o Cat,
     Ticks \o Cat \o Ticks}

Tags == {generateimage, lightdiffusion}

\* the tags as a model writes them, one in capitals
TagForms ==
    Tags \cup {<<"G", "e", "n", "e", "r", "a", "t", "e", "I", "m", "a", "g", "e">>}

Seps == {<<>>, <<" ">>, <<":">>, <<":", " ">>, <<"-">>, <<"\n">>, <<"s">>}

Heads == {<<>>} \cup {t \o s : t \in TagForms, s \in Seps}

Plain == {h \o p : h \in Heads, p \in Prompts}

\* the texts of a body or an info string, some wrapped in back-ticks
Texts == Plain \cup {Ticks \o x \o Ticks : x \in Plain} \cup {<<" ">> \o x : x \in Plain}

\* the blocks the host hands over: a body with a tag or no info string, or
\* no body and an info string
Blocks ==
    {[codeblock |-> StrV(b), lang |-> l] :
        b \in Texts, l \in {NoneV} \cup {StrV(t) : t \in Tags}}
    \cup {[codeblock |-> c, lang |-> StrV(i)] : c \in {NoneV, StrV(<<>>)}, i \in Texts}

\* msg_uuid as the host passes it: none, empty, or an identifier
MsgIds == {NoneV, StrV(<<>>), StrV(<<"m1">>), StrV(<<"m2">>)}

IoOutcomes == {"ok", "oserror"}

ExtOutcomes == {"pending", "raise"}

FetchOutcomes == {"ok", "nopixbuf", "fail"}

\* JSON text, built from its parts
Q(s) == <<"\"">> \o s \o <<"\"">>

Member(key, text) == Q(<<key>>) \o <<":">> \o text

RECURSIVE Joined(_)
Joined(parts) ==
    IF Len(parts) = 0 THEN <<>>
    ELSE IF Len(parts) = 1 THEN parts[1]
    ELSE parts[1] \o <<",">> \o Joined(Tail(parts))

NonEmpty(x) == Len(x) > 0

Object(members) == <<"{">> \o Joined(SelectSeq(members, NonEmpty)) \o <<"}">>

Array(elems) == <<"[">> \o Joined(elems) \o <<"]">>

\* base64 texts: two PNG files (pixels 65 and 66), bytes that are no image,
\* a text whose padding is missing, a data URL
B64A == <<"i", "U", "E", "=">>

B64B == <<"i", "U", "I", "=">>

B64NotImage == <<"Q", "Q", "=", "=">>

B64BadPadding == <<"i", "U", "E">>

DataUrlB ==
    <<"d", "a", "t", "a", ":", "i", "m", "a", "g", "e", "/", "p", "n", "g", ";",
      "b", "a", "s", "e", "6", "4", ",">> \o B64B

ImageUrl == <<"http:", "/", "/", "host", "/", "u.png">>

ServerFile == <<"/", "srv", "/", "out.png">>

MissingFile == <<"/", "srv", "/", "gone.png">>

\* the file system at the start: one image the backend wrote (pixels 70)
InitialFiles == ServerFile :> <<137, 70>>

Answer(text) == [net |-> "ok", ok |-> TRUE, text |-> text]

ImagesParts ==
    {<<>>,
     Member("images", Q(B64A)),
     Member("images", Array(<<>>)),
     Member("images", Array(<<Q(B64A)>>)),
     Member("images", Array(<<Q(B64BadPadding), Q(B64A)>>)),
     Member("images", Array(<<<<"7">>>>))}

ImageParts == {<<>>, Member("image", <<"7">>), Member("image", Q(DataUrlB))}

ImageUrlParts == {<<>>, Member("image_url", <<"null">>), Member("image_url", Q(ImageUrl))}

FilePathParts ==
    {<<>>,
     Member("file_path", Array(<<>>)),
     Member("file_path", Q(ServerFile)),
     Member("file_path", Q(MissingFile))}

\* what the backend may do, every combination of the four keys included
AllResponses ==
    {[net |-> "raise"],
     [net |-> "ok", ok |-> FALSE, text |-> <<"Internal Server Error">>],
     Answer(<<"<html>">>),
     Answer(<<"{">>),
     Answer(Array(<<Q(B64A)>>)),
     Answer(<<"null">>),
     Answer(Q(B64A))}
    \cup {Answer(Object(<<a, b, c, d>>)) :
            a \in ImagesParts, b \in ImageParts, c \in ImageUrlParts, d \in FilePathParts}

\* a sample of them: each failure and each shape once
Responses ==
    {[net |-> "raise"],
     [net |-> "ok", ok |-> FALSE, text |-> <<"Internal Server Error">>],
     Answer(<<"<html>">>),
     Answer(Array(<<Q(B64A)>>)),
     Answer(Object(<<>>)),
     Answer(Object(<<Member("images", Array(<<Q(B64A)>>))>>)),
     Answer(Object(<<Member("images", Array(<<Q(B64BadPadding)>>))>>)),
     Answer(Object(<<Member("images", Array(<<Q(B64NotImage)>>))>>)),
     Answer(Object(<<Member("image", Q(DataUrlB))>>)),
     Answer(Object(<<Member("image_url", Q(ImageUrl))>>)),
     Answer(Object(<<Member("file_path", Q(ServerFile))>>)),
     Answer(Object(<<Member("file_path", Q(MissingFile))>>))}

S(chars) == StrV(chars)

\* stored values tried for each setting, beside its default
Alternatives ==
    {<<"url", v>> : v \in {NoneV, S(<<>>), S(<<"http:", "/", "/", "h", "/", "/">>),
                           S(<<"/", "/">>)}}
    \cup {<<"positive-prompt", v>> :
            v \in {NoneV, S(<<"photo of ", "[input]", ", ", "[input]">>), IntV(7)}}
    \cup {<<"negative-prompt", v>> : v \in {NoneV, S(<<"blurry">>)}}
    \cup {<<"width", v>> : v \in {NoneV, S(<<"a", "b", "c">>), S(<<"7", "6", "8">>),
                                  S(<<"1", "2", ".", "5">>), FloatV(76850)}}
    \cup {<<"height", v>> : v \in {S(<<"x">>), IntV(640)}}
    \cup {<<"steps", v>> : v \in {NoneV, S(<<"a", "b", "c">>), S(<<"3", "0">>), FloatV(3000)}}
    \cup {<<"guidance_scale", v>> :
            v \in {NoneV, S(<<"b", "a", "d">>), S(<<"7", ".", "5">>), FloatV(750)}}
    \cup {<<"seed", v>> : v \in {NoneV, S(<<>>), S(<<"5">>), S(<<"a", "b", "c">>),
                                 S(<<"-", "5">>), S(<<" ", "-", "1">>), IntV(0), IntV(42)}}
    \cup {<<"extra_payload", v>> :
            v \in {NoneV, S(<<>>), S(<<"{">>), S(<<"[", "]">>), S(<<"5">>), S(<<"null">>),
                   S(Object(<<Member("endpoint_path", Q(<<"/", "x">>))>>)),
                   S(Object(<<Member("endpoint_path", <<"null">>)>>)),
                   S(Object(<<Member("reuse_seed", <<"false">>)>>)),
                   S(Object(<<Member("img2img_enabled", <<"true">>)>>)),
                   S(Object(<<Member("width", <<"7">>),
                              Member("endpoint_path", Q(<<"/", "x">>)),
                              Member("sampler", Q(<<"euler">>))>>)),
                   S(Object(<<Member("seed", <<"9">>), Member("prompt", Q(<<"dog">>))>>))}}
    \cup {<<"img2img_enabled", v>> :
            v \in {NoneV, IntV(1), FloatV(100), BoolV(TRUE), S(<<"1">>),
                   S(<<"t", "r", "u", "e">>), S(<<" ", "Y", "e", "s">>), S(<<"o", "f", "f">>)}}
    \cup {<<"img2img_image", v>> : v \in {NoneV, S(<<" ">>), S(<<"/", "in.png">>), IntV(5)}}
    \cup {<<"reuse_seed", v>> : v \in {NoneV, IntV(1), BoolV(TRUE), S(<<"o", "n">>),
                                       S(<<"m", "a", "y", "b", "e">>)}}
    \cup {<<"multiscale_factor", v>> :
            v \in {NoneV, S(<<"x">>), S(<<"0", ".", "2", "5">>), FloatV(75)}}
    \cup {<<"multiscale_fullres_start", v>> : v \in {NoneV, S(<<"x">>), IntV(5)}}
    \cup {<<"multiscale_fullres_end", v>> : v \in {S(<<"x">>), IntV(9)}}
    \cup {<<"hires_fix", v>> : v \in {IntV(1), S(<<"o", "n">>)}}
    \cup {<<"multiscale_enabled", v>> : v \in {NoneV, IntV(0), S(<<"j", "u", "n", "k">>)}}
    \cup {<<"multiscale_intermittent", v>> : v \in {NoneV, S(<<"j", "u", "n", "k">>)}}
    \cup {<<"num_images", v>> : v \in {IntV(2), S(<<"x">>)}}

MaxOverrides == 2

\* the default settings with at most n of them replaced by an alternative
RECURSIVE Overridden(_)
Overridden(n) ==
    IF n = 0 THEN {DefaultSettings}
    ELSE LET prev == Overridden(n - 1)
         IN prev \cup {(a[1] :> a[2]) @@ st : a \in Alternatives, st \in prev}

BuildSettings == Overridden(MaxOverrides)

\* the settings of the life-cycle runs: the defaults, image-to-image
\* switched on without a source, an overlay that is no object
LifecycleSettings ==
    {DefaultSettings,
     ("img2img_enabled" :> IntV(1)) @@ DefaultSettings,
     ("extra_payload" :> S(<<"[", "]">>)) @@ DefaultSettings}

---------------------------------------------------------------------------
(* The specifications                                                      *)

InitRest ==
    /\ widgets = [w \in WIds |-> NoWidget]
    /\ gens = [w \in WIds |-> NoGen]
    /\ loaders = {}
    /\ urlLoads = {}
    /\ idleq = <<>>
    /\ files = InitialFiles

\* the life cycle: widgets generated and restored concurrently
Init == settings \in LifecycleSettings /\ InitRest

Next ==
    \/ \E m \in MsgIds : GetGtkWidget(StrV(Prompt), Lang, m)
    \/ \E m \in MsgIds : RestoreGtkWidget(StrV(Prompt), Lang, m)
    \/ \E w \in WIds : GenBuild(w)
    \/ \E w \in WIds, r \in Responses, io \in IoOutcomes, ext \in ExtOutcomes :
          GenRespond(w, r, io, ext)
    \/ \E l \in loaders : LoadInThread(l)
    \/ \E u \in urlLoads, res \in FetchOutcomes : UrlFetch(u, res)
    \/ \E io \in IoOutcomes, ext \in ExtOutcomes : IdleRun(io, ext)

Spec == Init /\ [][Next]_vars

\* the request builder: one get_gtk_widget call under each of the settings
InitBuild == settings \in BuildSettings /\ InitRest

NextBuild ==
    \/ \E p \in {Prompt, <<>>} : NextW = 1 /\ GetGtkWidget(StrV(p), Lang, NoneV)
    \/ GenBuild(1)

SpecBuild == InitBuild /\ [][NextBuild]_vars

\* the response normalizer: one get_gtk_widget call, every answer
InitResp == settings = DefaultSettings /\ InitRest

NextResp ==
    \/ \E m \in MsgIds : NextW = 1 /\ GetGtkWidget(StrV(Prompt), Lang, m)
    \/ GenBuild(1)
    \/ \E r \in AllResponses, io \in IoOutcomes, ext \in ExtOutcomes :
          GenRespond(1, r, io, ext)
    \/ \E l \in loaders : LoadInThread(l)
    \/ \E u \in urlLoads, res \in FetchOutcomes : UrlFetch(u, res)
    \/ \E io \in IoOutcomes, ext \in ExtOutcomes : IdleRun(io, ext)

SpecResp == InitResp /\ [][NextResp]_vars

\* the prompt extraction: one call of get_gtk_widget or restore_gtk_widget
\* for each block
NextPrompt ==
    \/ \E b \in Blocks : NextW = 1 /\ GetGtkWidget(b.codeblock, b.lang, NoneV)
    \/ \E b \in Blocks : NextW = 1 /\ RestoreGtkWidget(b.codeblock, b.lang, StrV(<<"m1">>))
    \/ GenBuild(1)

SpecPrompt == InitResp /\ [][NextPrompt]_vars

\* one get_gtk_widget call, every answer, when every URL load calls back and
\* each thread and the main loop take their next step sooner or later
NextLive ==
    \/ \E m \in MsgIds : NextW = 1 /\ GetGtkWidget(StrV(Prompt), Lang, m)
    \/ GenBuild(1)
    \/ \E r \in AllResponses, io \in IoOutcomes, ext \in ExtOutcomes :
          GenRespond(1, r, io, ext)
    \/ \E l \in loaders : LoadInThread(l)
    \/ \E u \in urlLoads, res \in FetchOutcomes \ {"fail"} : UrlFetch(u, res)
    \/ \E io \in IoOutcomes, ext \in ExtOutcomes : IdleRun(io, ext)

SpecLive ==
    /\ Init
    /\ [][NextLive]_vars
    /\ WF_vars(GenBuild(1))
    /\ WF_vars(\E r \in AllResponses, io \in IoOutcomes, ext \in ExtOutcomes :
                  GenRespond(1, r, io, ext))
    /\ WF_vars(\E l \in loaders : LoadInThread(l))
    /\ WF_vars(\E u \in urlLoads, res \in FetchOutcomes \ {"fail"} : UrlFetch(u, res))
    /\ WF_vars(\E io \in IoOutcomes, ext \in ExtOutcomes : IdleRun(io, ext))

---------------------------------------------------------------------------
(* The properties of the request builder, checked under SpecBuild          *)

\* the calls whose request was handed to requests.post
Posted == {w \in WIds : gens[w].pc \in {"posted", "done"} /\ gens[w].req # NoneV}

\* the calls that went through the request builder
ThroughBuilder == {w \in WIds : gens[w].pc \in {"posted", "done"}}

\* the extra-options overlay: the JSON object of the extra_payload setting
Overlay == ExtraPayload(settings).d

\* the seed setting parses to an integer >= 0
SeedGiven ==
    PyInt(get_setting(settings, "seed")).ok /\ PyInt(get_setting(settings, "seed")).n >= 0

\* C2 as the specification states it: a seed >= 0 puts reuse_seed = true in
\* the body posted, whatever the toggle and the overlay hold.
C2_SeedAlwaysForcesReuse ==
    \A w \in Posted : SeedGiven => gens[w].req.payload["reuse_seed"] = BoolV(TRUE)

\* C2, as the code has it: with a seed >= 0 the body posted has
\* reuse_seed = true whatever the toggle holds, unless the overlay names
\* reuse_seed itself, and then the body carries the overlay's value.
C2_SeedForcesReuseUnlessOverlaid ==
    \A w \in Posted :
        SeedGiven =>
            gens[w].req.payload["reuse_seed"] =
                IF "reuse_seed" \in DOMAIN Overlay THEN Overlay["reuse_seed"] ELSE BoolV(TRUE)

\* C2's case: a seed >= 0, the toggle off, no reuse_seed in the overlay, and
\* the body posted with reuse_seed = true
C2_SeedGivenToggleOff ==
    \E w \in Posted :
        /\ SeedGiven
        /\ get_setting(settings, "reuse_seed") = IntV(0)
        /\ "reuse_seed" \notin DOMAIN Overlay
        /\ gens[w].req.payload["reuse_seed"] = BoolV(TRUE)

\* an image path that is missing, empty or blank
Blank(v) == v = NoneV \/ (v.t = "str" /\ Strip(v.s) = <<>>)

\* C3: no request is posted whose body has img2img_enabled = true and no
\* img2img_image, whatever the two settings hold (stated for the overlays
\* that name neither key).
C3_Img2ImgNeedsSource ==
    \A w \in Posted :
        ("img2img_enabled" \notin DOMAIN Overlay /\ "img2img_image" \notin DOMAIN Overlay)
            => ~(/\ gens[w].req.payload["img2img_enabled"] = BoolV(TRUE)
                 /\ Blank(gens[w].req.payload["img2img_image"]))

RequiredKeys ==
    {"prompt", "negative_prompt", "width", "height", "num_images", "batch_size",
     "reuse_seed", "hires_fix", "adetailer", "enhance_prompt", "img2img_enabled",
     "stable_fast", "flux_enabled", "prio_speed", "realistic_model",
     "multiscale_enabled", "multiscale_intermittent", "multiscale_factor",
     "multiscale_fullres_start", "multiscale_fullres_end", "keep_models_loaded"}

\* the two text settings the builder calls str methods on hold text
TextSettingsAreText ==
    /\ get_setting(settings, "positive-prompt").t \in {"none", "str"}
    /\ get_setting(settings, "img2img_image").t \in {"none", "str"}

\* C4: whatever the settings hold, a malformed or non-object overlay text
\* included, the builder posts a body with all the required keys (the
\* client-side image-to-image rejection apart).
C4_AlwaysDispatched ==
    \A w \in ThroughBuilder :
        TextSettingsAreText /\ gens[w].err # "img2img"
            => /\ gens[w].req # NoneV
               /\ RequiredKeys \subseteq DOMAIN gens[w].req.payload

\* C5: in the body posted every overlay key other than endpoint_path has
\* the overlay's value, endpoint_path is absent, and every other key has
\* the value built from the settings.
C5_OverlayLastWins ==
    \A w \in Posted :
        LET payload == gens[w].req.payload
            built == SettingsPayload(settings, gens[w].prompt)
        IN /\ \A k \in DOMAIN Overlay \ {"endpoint_path"} :
                  k \in DOMAIN payload /\ payload[k] = Overlay[k]
           /\ "endpoint_path" \notin DOMAIN payload
           /\ \A k \in DOMAIN payload \ DOMAIN Overlay :
                  k \in DOMAIN built /\ payload[k] = built[k]
           /\ \A k \in DOMAIN built : k \in DOMAIN payload

\* C5's case: an overlay that names a settings key (width), a new key
\* (sampler) and endpoint_path
C5_OverlayOverridesWidth ==
    \E w \in Posted :
        /\ {"width", "sampler", "endpoint_path"} \subseteq DOMAIN Overlay
        /\ gens[w].req.payload["width"] = IntV(7)
        /\ gens[w].req.payload["width"] # SettingsPayload(settings, gens[w].prompt)["width"]
        /\ gens[w].req.payload["sampler"] = StrV(<<"euler">>)
        /\ "endpoint_path" \notin DOMAIN gens[w].req.payload

NumericKeys ==
    {"width", "height", "steps", "guidance_scale", "seed", "multiscale_factor",
     "multiscale_fullres_start", "multiscale_fullres_end"}

\* int / float of the numeric setting k raises
Uncoercible(k) ==
    IF k \in {"guidance_scale", "multiscale_factor"}
    THEN ~PyFloat(get_setting(settings, k)).ok
    ELSE ~PyInt(get_setting(settings, k)).ok

\* a value is stored for the numeric setting k and cannot be coerced
Malformed(k) == get_setting(settings, k) # NoneV /\ Uncoercible(k)

\* the defaults get_extra_settings documents, as the body would carry them
DocumentedDefault ==
    [width |-> IntV(512), height |-> IntV(512), steps |-> IntV(20),
     guidance_scale |-> FloatV(700), seed |-> IntV(0 - 1), multiscale_factor |-> FloatV(50),
     multiscale_fullres_start |-> IntV(3), multiscale_fullres_end |-> IntV(8)]

\* the settings with the key k back at its default
WithDefault(k) == (k :> DefaultSettings[k]) @@ settings

\* a malformed k leaves the dispatch as it is with k at its default
DispatchUnaffected(w, k) ==
    (gens[w].req # NoneV) <=> (BuildRequest(WithDefault(k), gens[w].prompt).kind = "post")

\* C6 as the specification states it: a malformed numeric setting is
\* replaced in the body by its documented default (a seed of -1 being a
\* seed left out), the request still dispatched; stated for the keys the
\* overlay does not name.
C6_MalformedGetsDocumentedDefault ==
    \A w \in ThroughBuilder : \A k \in NumericKeys :
        Malformed(k) =>
            /\ DispatchUnaffected(w, k)
            /\ (gens[w].req # NoneV /\ k \notin DOMAIN Overlay)
                  => IF k = "seed"
                     THEN k \notin DOMAIN gens[w].req.payload
                     ELSE /\ k \in DOMAIN gens[w].req.payload
                          /\ gens[w].req.payload[k] = DocumentedDefault[k]

\* C6, as the code has it: a width, height, multiscale_factor,
\* multiscale_fullres_start or multiscale_fullres_end that is malformed (or
\* not stored) is replaced by its documented default; a steps,
\* guidance_scale or seed that is malformed (or not stored) is left out of
\* the body; the dispatch is as with the setting at its default; stated for
\* the keys the overlay does not name.
C6_MalformedDefaultedOrOmitted ==
    \A w \in ThroughBuilder : \A k \in NumericKeys :
        Uncoercible(k) =>
            /\ DispatchUnaffected(w, k)
            /\ (gens[w].req # NoneV /\ k \notin DOMAIN Overlay)
                  => IF k \in {"steps", "guidance_scale", "seed"}
                     THEN k \notin DOMAIN gens[w].req.payload
                     ELSE /\ k \in DOMAIN gens[w].req.payload
                          /\ gens[w].req.payload[k] = DocumentedDefault[k]

\* C6's case: a request posted with a malformed width and malformed steps
C6_MalformedWidthAndSteps ==
    \E w \in Posted :
        /\ get_setting(settings, "width") = StrV(<<"a", "b", "c">>)
        /\ get_setting(settings, "steps") = StrV(<<"a", "b", "c">>)
        /\ gens[w].req.payload["width"] = IntV(512)
        /\ "steps" \notin DOMAIN gens[w].req.payload

\* C7: the URL posted to is the url setting (the default when unset or
\* empty) without its trailing slashes, followed by the overlay's
\* endpoint_path, or by /api/generate when the overlay has none.
C7_PostUrl ==
    \A w \in Posted :
        LET u == get_setting(settings, "url")
            text == IF u = NoneV \/ u = StrV(<<>>)
                    THEN <<"http:", "/", "/", "localhost:7861">>
                    ELSE u.s
            path == IF "endpoint_path" \in DOMAIN Overlay
                    THEN PyStr(Overlay["endpoint_path"])
                    ELSE <<"/", "api", "/", "generate">>
            url == gens[w].req.url
            n == Len(url) - Len(path)
        IN /\ n >= 0
           /\ n <= Len(text)
           /\ SubSeq(url, n + 1, Len(url)) = path
           /\ SubSeq(url, 1, n) = SubSeq(text, 1, n)
           /\ \A i \in (n + 1)..Len(text) : text[i] = "/"
           /\ (n > 0 => url[n] # "/")

\* C7's case: a url setting with trailing slashes and an overlay naming
\* endpoint_path
C7_SlashesAndEndpoint ==
    \E w \in Posted :
        /\ get_setting(settings, "url") = StrV(<<"http:", "/", "/", "h", "/", "/">>)
        /\ "endpoint_path" \in DOMAIN Overlay
        /\ gens[w].req.url = <<"http:", "/", "/", "h", "/", "x">>

\* the seed setting is missing, empty, "-1" or no integer
SeedUnset ==
    \/ get_setting(settings, "seed") \in {NoneV, StrV(<<>>), StrV(<<"-", "1">>)}
    \/ ~PyInt(get_setting(settings, "seed")).ok

Toggle == BoolV(get_bool(settings, "reuse_seed", FALSE))

\* C16 as stated: the body posted has a seed key exactly when the seed
\* setting parses to an integer >= 0; with the seed setting unset it has
\* none and its reuse_seed is the toggle
C16_SeedKeyIffSeedGiven ==
    \A w \in Posted :
        /\ "seed" \in DOMAIN gens[w].req.payload <=> SeedGiven
        /\ SeedUnset =>
              /\ "seed" \notin DOMAIN gens[w].req.payload
              /\ gens[w].req.payload["reuse_seed"] = Toggle

\* C16: the same for a key the overlay does not name; a seed or reuse_seed
\* named in the overlay is posted with the overlay's value
C16_SeedKeyUnlessOverlaid ==
    \A w \in Posted :
        /\ IF "seed" \in DOMAIN Overlay
           THEN gens[w].req.payload["seed"] = Overlay["seed"]
           ELSE /\ "seed" \in DOMAIN gens[w].req.payload <=> SeedGiven
                /\ SeedGiven =>
                      gens[w].req.payload["seed"] =
                          IntV(PyInt(get_setting(settings, "seed")).n)
        /\ SeedUnset =>
              gens[w].req.payload["reuse_seed"] =
                  IF "reuse_seed" \in DOMAIN Overlay THEN Overlay["reuse_seed"] ELSE Toggle

\* C16 witness: a seed that is no integer, the toggle on, posted without a
\* seed key and with reuse_seed = true
C16_SeedNoIntegerToggleOn ==
    \E w \in Posted :
        /\ "seed" \notin DOMAIN Overlay
        /\ get_setting(settings, "seed") = StrV(<<"a", "b", "c">>)
        /\ get_setting(settings, "reuse_seed") = IntV(1)
        /\ "seed" \notin DOMAIN gens[w].req.payload
        /\ gens[w].req.payload["reuse_seed"] = BoolV(TRUE)

---------------------------------------------------------------------------
(* The properties of the response normalizer, checked under SpecResp       *)

\* the calls that interpreted a JSON object
Answered ==
    {w \in WIds : gens[w].pc = "done" /\ gens[w].data # NoneV /\ gens[w].data.t = "dict"}

HasList(data, k) == k \in DOMAIN data.d /\ data.d[k].t = "list"

HasStr(data, k) == k \in DOMAIN data.d /\ data.d[k].t = "str"

Recognized(data) ==
    \/ HasList(data, "images")
    \/ HasStr(data, "image")
    \/ HasStr(data, "image_url")
    \/ HasStr(data, "file_path")

\* the first of the four keys present with its type
FirstTyped(data) ==
    IF HasList(data, "images") THEN "images"
    ELSE IF HasStr(data, "image") THEN "image"
    ELSE IF HasStr(data, "image_url") THEN "image_url"
    ELSE IF HasStr(data, "file_path") THEN "file_path"
    ELSE "unexpected"

\* the same, an empty images list passed over
FirstUsable(data) ==
    IF HasList(data, "images") /\ Len(data.d["images"].xs) > 0 THEN "images"
    ELSE IF HasStr(data, "image") THEN "image"
    ELSE IF HasStr(data, "image_url") THEN "image_url"
    ELSE IF HasStr(data, "file_path") THEN "file_path"
    ELSE "unexpected"

\* the pixels each answer of AllResponses carries in each shape
ShapePixels ==
    [images |-> <<65>>, image |-> <<66>>, image_url |-> <<85>>, file_path |-> <<70>>]

\* C1 as the specification states it: of a JSON object with one of the four
\* keys, exactly the first in the order images (list), image (string),
\* image_url (string), file_path (string) is consumed.
C1_FirstTypedKeyConsumed ==
    \A w \in Answered : Recognized(gens[w].data) => gens[w].shape = FirstTyped(gens[w].data)

\* C1, as the code has it: at most one shape is consumed, the first in the
\* order images (a list that is not empty), image (string), image_url
\* (string), file_path (string), and none when no key matches; the image
\* the widget shows and the URL it holds come from that shape alone.
C1_FirstUsableKeyConsumed ==
    \A w \in Answered :
        /\ gens[w].shape = FirstUsable(gens[w].data)
        /\ widgets[w].image.t = "pixbuf"
              => /\ gens[w].shape \in DOMAIN ShapePixels
                 /\ widgets[w].image.px = ShapePixels[gens[w].shape]
        /\ widgets[w].current_url # NoneV
              => /\ gens[w].shape = "image_url"
                 /\ widgets[w].current_url = gens[w].data.d["image_url"]

\* C1's case: an answer with all four keys, the list's image on display
C1_AllFourKeys ==
    \E w \in Answered :
        /\ HasList(gens[w].data, "images")
        /\ HasStr(gens[w].data, "image")
        /\ HasStr(gens[w].data, "image_url")
        /\ HasStr(gens[w].data, "file_path")
        /\ gens[w].shape = "images"
        /\ widgets[w].image.t = "pixbuf"
        /\ widgets[w].image.px = <<65>>

\* C9: once a file_path answer has been handled for the message m1 and its
\* image is on display, a cached PNG of m1 holds that image.
C9_FilePathCached ==
    \A w \in Answered :
        (/\ gens[w].shape = "file_path"
         /\ gens[w].msg = StrV(<<"m1">>)
         /\ widgets[w].image.t = "pixbuf")
            => /\ Exists(files, <<"ext", "/", "generated_images", "/", "m1", ".png">>)
               /\ files[<<"ext", "/", "generated_images", "/", "m1", ".png">>]
                     = <<137>> \o widgets[w].image.px

---------------------------------------------------------------------------
(* The properties of the life cycle, checked under Spec                    *)

\* the calls of generate_image that ended in a failure
Failed == {w \in WIds : gens[w].pc = "done" /\ gens[w].err # "none"}

IsLoadingChange(e) == e.op = "show_loading"

LoadingChanges(w) == SelectSeq(widgets[w].log, IsLoadingChange)

\* C8: after each failure generate_image has returned, and the last change
\* of the widget's loading state is show_loading(False).
C8_FailureHidesLoading ==
    \A w \in Failed :
        /\ ~widgets[w].loading
        /\ Len(LoadingChanges(w)) > 0
        /\ ~LoadingChanges(w)[Len(LoadingChanges(w))].show

\* C8's case: a call failed on the HTTP status, another on saving the image
C8_HttpAndSaveFailures ==
    \E w1, w2 \in Failed :
        /\ gens[w1].err = "http"
        /\ gens[w2].err = "exception"
        /\ gens[w2].shape = "images"

\* C10: the path a call of generate_image wrote its image to is the path
\* restore_gtk_widget looks up for the same message identifier.
C10_SameCachePath ==
    \A w1, w2 \in WIds :
        (/\ gens[w1].pc = "done"
         /\ gens[w1].err = "none"
         /\ gens[w1].shape \in {"images", "image"}
         /\ gens[w2].pc = "restored"
         /\ gens[w2].msg = gens[w1].msg)
            => gens[w2].path = gens[w1].cache_out
---------------------------------------------------------------------------
(* The properties of the prompt extraction, checked under SpecPrompt       *)

\* the calls made, of get_gtk_widget or restore_gtk_widget
Calls == {w \in WIds : gens[w].pc # "none"}

\* the block call w was given
Block(w) == [codeblock |-> gens[w].codeblock, lang |-> gens[w].lang]

\* call w normalized its block to p: the widget's prompt, and the prompt
\* handed to generate_image
NormalizedTo(w, p) ==
    /\ widgets[w].prompt = StrV(p)
    /\ gens[w].pc # "restored" => gens[w].prompt = p

\* p is one line with nothing to strip: no white space around it, no tag
\* and no back-ticks at its start
IsBare(p) ==
    /\ Strip(p) = p
    /\ \A i \in 1..Len(p) : p[i] # "\n"
    /\ \A t \in Tags : TagMatch(p, t) = 0
    /\ ~StartsWith(p, Ticks)

\* the three supported shapes of a block for the prompt p and the tag t:
\* body and tag, one-liner info string, body led by the tag
Shape1(p, t) == [codeblock |-> StrV(p), lang |-> StrV(t)]

Shape2(p, t) == [codeblock |-> StrV(<<>>), lang |-> StrV(t \o <<" ">> \o p)]

Shape3(p, t) == [codeblock |-> StrV(t \o <<" ">> \o p), lang |-> StrV(t)]

\* call w was given one of the three shapes for p and t
InShape(w, p, t) == Block(w) \in {Shape1(p, t), Shape2(p, t), Shape3(p, t)}

\* C11 as stated: for every prompt string p and each tag t, a block of any
\* of the three shapes for p and t is normalized to p
C11_EveryPromptFromThreeShapes ==
    \A w \in Calls : \A p \in Prompts, t \in Tags : InShape(w, p, t) => NormalizedTo(w, p)

\* C11: for every bare one-line prompt p and each tag t, a block of any of
\* the three shapes for p and t is normalized to p
C11_BarePromptFromThreeShapes ==
    \A w \in Calls :
        \A p \in {q \in Prompts : IsBare(q)}, t \in Tags :
            InShape(w, p, t) => NormalizedTo(w, p)

\* C11 witness: the one-liner info string "lightdiffusion a cat" with an
\* empty body gave the prompt "a cat"
C11_InfoOneLiner ==
    \E w \in Calls :
        /\ Block(w) = Shape2(<<"a", " ">> \o Cat, lightdiffusion)
        /\ NormalizedTo(w, <<"a", " ">> \o Cat)
        /\ gens[w].pc = "posted"

\* s is wrapped in triple back-ticks
Wrapped(s) == StartsWith(s, Ticks) /\ EndsWith(s, Ticks) /\ Len(s) >= 6

\* C17 as stated: the prompt a call extracted, fed back in as the body, is
\* returned unchanged: it begins with no tag prefix and is not wrapped in
\* triple back-ticks
C17_ExtractedPromptIsBare ==
    \A w \in Calls :
        /\ _extract_prompt_from_block(widgets[w].prompt, gens[w].lang) = widgets[w].prompt.s
        /\ \A t \in Tags : TagMatch(widgets[w].prompt.s, t) = 0
        /\ ~Wrapped(widgets[w].prompt.s)

---------------------------------------------------------------------------
(* The threads and the requests, checked under Spec                        *)

\* the operations of kind op logged for widget w
Ops(w, op) == {i \in 1..Len(widgets[w].log) : widgets[w].log[i].op = op}

Made == {w \in WIds : widgets[w] # NoWidget}

\* C12 as stated: every show_loading call and every change of the displayed
\* image of a widget is carried out by the UI thread
C12_WidgetChangedOnUiThreadOnly ==
    \A w \in Made :
        \A i \in Ops(w, "show_loading") \cup Ops(w, "image") : widgets[w].log[i].by = "ui"

\* C13 as stated: every write of a widget's current_pixbuf is carried out
\* by the UI thread
C13_PixbufWrittenOnUiThreadOnly ==
    \A w \in Made : \A i \in Ops(w, "current_pixbuf") : widgets[w].log[i].by = "ui"

\* C14: a get_gtk_widget call has issued at most one POST, whatever its
\* outcome, and a restore_gtk_widget call none
C14_AtMostOnePost ==
    \A w \in Calls :
        /\ gens[w].posts <= 1
        /\ gens[w].pc = "restored" => gens[w].posts = 0

\* C14 witness: a call that failed after its one POST, next to a restored
\* widget
C14_FailedOnceAndRestored ==
    /\ \E w \in Calls :
          gens[w].pc = "done" /\ gens[w].err = "http" /\ gens[w].posts = 1
    /\ \E w \in Calls : gens[w].pc = "restored" /\ gens[w].posts = 0

---------------------------------------------------------------------------
(* The unexpected answer, checked under SpecResp                           *)

\* the parsed answer matches none of the four shapes
NoShape(data) ==
    \/ data.t # "dict"
    \/ /\ ~(HasList(data, "images") /\ Len(data.d["images"].xs) > 0)
       /\ ~HasStr(data, "image")
       /\ ~HasStr(data, "image_url")
       /\ ~HasStr(data, "file_path")

\* C15: the step of generate_image that parses an answer of none of the
\* four shapes ends the call with the unexpected-format error and the
\* loading indicator hidden, and leaves the widget's image, its current
\* URL and every file as they were
C15_UnexpectedFormatFrame ==
    [][\A w \in WIds :
          (gens[w].pc = "posted" /\ gens'[w].shape # "none" /\ NoShape(gens'[w].data)) =>
              /\ gens'[w].pc = "done"
              /\ gens'[w].err = "unexpected"
              /\ ~widgets'[w].loading
              /\ widgets'[w].image = widgets[w].image
              /\ widgets'[w].current_url = widgets[w].current_url
              /\ files' = files]_vars

\* C15 witness: the answer {"images": []} with a message identifier ended
\* in the unexpected-format error, the image empty, no cache file written
C15_EmptyListAnswered ==
    \E w \in WIds :
        /\ gens[w].pc = "done"
        /\ gens[w].err = "unexpected"
        /\ gens[w].msg = StrV(<<"m1">>)
        /\ gens[w].data.t = "dict"
        /\ DOMAIN gens[w].data.d = {"images"}
        /\ widgets[w].image = EmptyImage
        /\ widgets[w].current_url = NoneV
        /\ ~Exists(files, gens[w].cache_out)

\* the get_gtk_widget calls made
Generated == {w \in WIds : gens[w].pc \in {"start", "posted", "done"}}

\* their message identifiers are not empty and differ from each other
DistinctIds ==
    \A w \in Generated :
        /\ gens[w].msg.t = "str"
        /\ Len(gens[w].msg.s) > 0
        /\ \A v \in Generated \ {w} : gens[v].msg # gens[w].msg

\* <cache_dir>/<id>.png for the identifier of call w
OwnCache(w) == CacheDir \o <<"/">> \o gens[w].msg.s \o <<".png">>

\* C19: when the get_gtk_widget calls have distinct non-empty identifiers,
\* every file written is the cache file of one of them and, when it is an
\* image, holds the image of that call's answer; and a widget showing an
\* image shows the image of its own call's answer
C19_GenerationsIsolated ==
    DistinctIds =>
        /\ \A p \in DOMAIN files \ DOMAIN InitialFiles :
              \E w \in Generated :
                  /\ p = OwnCache(w)
                  /\ gens[w].shape \in DOMAIN ShapePixels
                  /\ PixbufFromBytes(files[p]).ok
                        => files[p] = <<137>> \o ShapePixels[gens[w].shape]
        /\ \A w \in Generated :
              widgets[w].image.t = "pixbuf"
                  => /\ gens[w].shape \in DOMAIN ShapePixels
                     /\ widgets[w].image.px = ShapePixels[gens[w].shape]

\* C19 witness: two calls, m1 answered with an image list and m2 with a
\* single image, each widget showing its own image and each cache file
\* holding it
C19_TwoImagesApart ==
    \E w1, w2 \in Generated :
        /\ gens[w1].msg = StrV(<<"m1">>)
        /\ gens[w2].msg = StrV(<<"m2">>)
        /\ gens[w1].shape = "images"
        /\ gens[w2].shape = "image"
        /\ widgets[w1].image.t = "pixbuf"
        /\ widgets[w1].image.px = <<65>>
        /\ widgets[w2].image.t = "pixbuf"
        /\ widgets[w2].image.px = <<66>>
        /\ files[OwnCache(w1)] = <<137, 65>>
        /\ files[OwnCache(w2)] = <<137, 66>>

---------------------------------------------------------------------------
(* The loading indicator, checked under SpecLive                           *)

\* the loading indicator of widget w is shown
Loading(w) == widgets[w] # NoWidget /\ widgets[w].loading

\* C18: the widget of a get_gtk_widget call starts with the indicator
\* shown; from then on the indicator is eventually hidden for good; and the
\* step that ends a load_in_thread schedules one callback for its widget,
\* update_ui or show_error
C18_LoadingEventuallyHidden ==
    /\ \A w \in WIds : [](gens[w].pc = "start" => Loading(w))
    /\ \A w \in WIds : (gens[w].pc = "start") ~> [](~Loading(w))
    /\ [][\A l \in loaders :
            l \notin loaders' =>
                /\ Len(idleq') = Len(idleq) + 1
                /\ SubSeq(idleq', 1, Len(idleq)) = idleq
                /\ idleq'[Len(idleq')].w = l.w
                /\ idleq'[Len(idleq')].k \in {"update_ui", "show_error"}]_vars

\* C18 witness: after an image URL answer the loader called back and the
\* indicator, shown twice, is hidden
C18_UrlLoadedAndHidden ==
    \E w \in WIds :
        /\ gens[w].pc = "done"
        /\ gens[w].shape = "image_url"
        /\ gens[w].err = "none"
        /\ widgets[w].image = scale_pixbuf_to_fit(Pixbuf(RemoteImage(widgets[w].current_url)))
        /\ ~Loading(w)
        /\ Len(LoadingChanges(w)) >= 3

===========================================================================
